---- MODULE Spec2Model ----
(***************************************************************************)
(* Lead prospecting pipeline (prospeccao_leads): ScraperApp.run, the       *)
(* Google Places adapter with its rate limiter, retrying fetcher and       *)
(* detail-fetch semaphore, the SerpAPI adapter and the sheet sink.         *)
(*                                                                         *)
(* Scheduling follows asyncio: one coroutine runs at a time (running) and  *)
(* gives up the event loop only where the code awaits something that is    *)
(* not ready (a held lock, an exhausted semaphore, a sleep, network I/O).  *)
(* The SerpAPI call runs in a thread of the executor.  Time is counted in  *)
(* ticks: elapsed is the loop time since _last_call, saturated at the      *)
(* limiter's interval, and timer[t] is what remains of task t's sleep.     *)
(***************************************************************************)
EXTENDS Integers, Sequences, FiniteSets, TLC

\* ------------------------------------------------------------------ bounds
TicksPerSecond == 1
MaxInterval == 2
MaxCidades == 3
MaxPages == 2
MaxResults == 2
MaxLeads == 3
MaxClock == 2

\* ------------------------------------------------------- program constants
max_workers == 5
stop_after_attempt == 3
wait_min == 1
wait_max == 10
page_delay == 2
lead_cap == 60

NoTask == 0

Min(a, b) == IF a < b THEN a ELSE b
Max(a, b) == IF a > b THEN a ELSE b

RECURSIVE Pow2(_)
Pow2(n) == IF n <= 0 THEN 1 ELSE 2 * Pow2(n - 1)

VARIABLES
    \* Config
    cidades, nichos, serpapi_key, interval,
    \* ScraperApp.run
    phase, existing_phones, results, leads, sheet,
    \* the event loop
    running,
    \* GooglePlacesScraper
    rate_lock, last_call_set, elapsed, semaphore,
    \* the collection tasks and the locals of each
    tasks, pc, kind, attempt, outcome, timer, todo, token, pages, place, task_leads,
    \* the network and the clock: what the servers may answer, the time of
    \* day, and who has sent a request
    world, sent

cfgvars == <<cidades, nichos, serpapi_key, interval>>
mainvars == <<phase, existing_phones, results, leads, sheet>>
limvars == <<rate_lock, last_call_set, elapsed>>
taskvars == <<pc, kind, attempt, outcome, timer, todo, token, pages, place, task_leads>>
vars == <<cfgvars, mainvars, running, limvars, semaphore, tasks, taskvars, world, sent>>

\* ------------------------------------------------------------ data
\* Strings the code inspects character by character are sequences of
\* one-character strings; None and "" are both <<>> (the code only tests
\* them for truth), and an absent number is NoNumber.
NoNumber == -1
NoText == <<>>
Digits == {"0", "1", "2", "3", "4", "5", "6", "7", "8", "9"}

CidadeNames == <<"sp", "rj", "bh", "poa", "ssa", "rec", "for">>
NichoNames == <<<<"D", "e", "n", "t", "i", "s", "t", "a">>, <<"p", "e", "t", " ", "s", "h", "o", "p">>>>

\* Place details as the details endpoint answers them (rating in tenths).
PlaceIds == {"p1", "p2", "p3", "p4"}
NoPlace == "none"
Details ==
    [p1 |-> [business_status |-> "OPERATIONAL", name |-> <<"S", "o", "r", "r", "i", "s", "o">>,
             formatted_phone_number |-> <<"(", "1", "1", ")", " ", "9", "1", "2", "3", "4", "-", "5", "6", "7", "8">>,
             website |-> NoText, rating |-> 35, user_ratings_total |-> 5],
     p2 |-> [business_status |-> "OPERATIONAL", name |-> <<"S", "o", "r", "r", "i", "z", "o">>,
             formatted_phone_number |-> <<"+", "5", "5", " ", "1", "1", " ", "9", "8", "8", "8", "8", "-", "7", "7", "7", "7">>,
             website |-> <<"a", ".", "w", "i", "x", ".", "c", "o", "m">>, rating |-> 48, user_ratings_total |-> 50],
     p3 |-> [business_status |-> "CLOSED_TEMPORARILY", name |-> <<"O", "t", "i", "c", "a">>,
             formatted_phone_number |-> NoText,
             website |-> NoText, rating |-> NoNumber, user_ratings_total |-> NoNumber],
     p4 |-> [business_status |-> "OPERATIONAL", name |-> <<"O", "t", "i", "c", "a">>,
             formatted_phone_number |-> <<"3", "3", "3", "3", "-", "4", "4", "4", "4">>,
             website |-> NoText, rating |-> NoNumber, user_ratings_total |-> NoNumber]]

IsDigit(c) == c \in Digits

StartsWith55(d) == Len(d) >= 2 /\ d[1] = "5" /\ d[2] = "5"

\* GooglePlacesScraper._format_phone / SerpApiScraper._format_phone
_format_phone(phone) ==
    IF phone = NoText THEN NoText
    ELSE LET digits == SelectSeq(phone, IsDigit)
             local == IF StartsWith55(digits) THEN SubSeq(digits, 3, Len(digits)) ELSE digits
         IN  IF Len(local) >= 10 THEN <<"+", "5", "5">> \o local ELSE NoText

\* datetime.utcnow().isoformat(timespec="seconds"), models.py: the clock of
\* the run in whole seconds, read as far as MaxClock ticks
utcnow == world.utcnow \div TicksPerSecond

\* Lead(...) as GooglePlacesScraper.search builds it
PlacesLead(place_id, result, nicho, cidade) ==
    [nome |-> result.name, nicho |-> nicho, cidade |-> cidade,
     telefone |-> _format_phone(result.formatted_phone_number),
     email |-> NoText, site |-> result.website,
     instagram |-> NoText, facebook |-> NoText,
     rating |-> result.rating, total_reviews |-> result.user_ratings_total,
     score |-> 0, fonte |-> "google_places", data_coleta |-> utcnow,
     place_id |-> place_id]

\* Lead(...) as SerpApiScraper._sync_search builds it from a local result
SerpLead(place_id, item, nicho, cidade) ==
    [nome |-> item.name, nicho |-> nicho, cidade |-> cidade,
     telefone |-> _format_phone(item.formatted_phone_number),
     email |-> NoText, site |-> item.website,
     instagram |-> NoText, facebook |-> NoText,
     rating |-> item.rating, total_reviews |-> item.user_ratings_total,
     score |-> 0, fonte |-> "serpapi", data_coleta |-> utcnow,
     place_id |-> place_id]

\* ------------------------------------------------------- Deduplicator
UpperCase == <<"A", "B", "C", "D", "E", "F", "G", "H", "I", "J", "K", "L", "M", "N", "O", "P", "Q", "R", "S", "T", "U", "V", "W", "X", "Y", "Z", "Í", "É">>
LowerCase == <<"a", "b", "c", "d", "e", "f", "g", "h", "i", "j", "k", "l", "m", "n", "o", "p", "q", "r", "s", "t", "u", "v", "w", "x", "y", "z", "í", "é">>

\* str.lower(), character by character
LowerChar(c) ==
    IF \E i \in 1..Len(UpperCase) : UpperCase[i] = c
    THEN LowerCase[CHOOSE i \in 1..Len(UpperCase) : UpperCase[i] = c]
    ELSE c

lower(str) == [i \in 1..Len(str) |-> LowerChar(str[i])]

\* Faulty variant of _normalize_phone: every leading "55" is removed.
RECURSIVE StripAll55(_)
StripAll55(digits) ==
    IF StartsWith55(digits) THEN StripAll55(SubSeq(digits, 3, Len(digits))) ELSE digits

_normalize_phone_StripsAll(phone) ==
    IF phone = NoText THEN NoText ELSE StripAll55(SelectSeq(phone, IsDigit))

\* Deduplicator._normalize_phone: None and "" give nothing
_normalize_phone(phone) ==
    IF phone = NoText THEN NoText
    ELSE LET digits == SelectSeq(phone, IsDigit)
         IN  IF StartsWith55(digits) THEN SubSeq(digits, 3, Len(digits)) ELSE digits

\* difflib.SequenceMatcher: the length of the match starting at a[i], b[j]
\* inside a[..ahi], b[..bhi]
RECURSIVE MatchLen(_, _, _, _, _, _)
MatchLen(a, b, i, j, ahi, bhi) ==
    IF i > ahi \/ j > bhi \/ a[i] # b[j] THEN 0
    ELSE 1 + MatchLen(a, b, i + 1, j + 1, ahi, bhi)

\* SequenceMatcher.find_longest_match: the longest block, the earliest in a
\* among the longest, the earliest in b among those
find_longest_match(a, b, alo, ahi, blo, bhi) ==
    LET cand == {<<i, j, MatchLen(a, b, i, j, ahi, bhi)>> : i \in alo..ahi, j \in blo..bhi}
        Better(x, y) ==
            \/ x[3] > y[3]
            \/ x[3] = y[3] /\ x[1] < y[1]
            \/ x[3] = y[3] /\ x[1] = y[1] /\ x[2] <= y[2]
    IN  CHOOSE x \in cand : \A y \in cand : Better(x, y)

\* SequenceMatcher.get_matching_blocks: the total size of the blocks
RECURSIVE Matches(_, _, _, _, _, _)
Matches(a, b, alo, ahi, blo, bhi) ==
    IF alo > ahi \/ blo > bhi THEN 0
    ELSE LET m == find_longest_match(a, b, alo, ahi, blo, bhi)
         IN  IF m[3] = 0 THEN 0
             ELSE m[3] + Matches(a, b, alo, m[1] - 1, blo, m[2] - 1)
                       + Matches(a, b, m[1] + m[3], ahi, m[2] + m[3], bhi)

\* SequenceMatcher(None, a, b).ratio() >= 0.8, with ratio = 2*M/T
\* (1.0 for two empty strings)
RatioAtLeast80(a, b) ==
    LET T == Len(a) + Len(b)
    IN  IF T = 0 THEN TRUE
        ELSE 10 * 2 * Matches(a, b, 1, Len(a), 1, Len(b)) >= 8 * T

\* Deduplicator._is_similar_name over the names kept for one city
_is_similar_name(candidate_name_lower, city_names) ==
    \E k \in 1..Len(city_names) : RatioAtLeast80(candidate_name_lower, city_names[k])

\* Faulty variant of ByCity: the names of every city are compared.
ByCity_AllCities(deduplicated, cidade) ==
    [k \in 1..Len(deduplicated) |-> lower(deduplicated[k].nome)]

\* by_city[cidade]: the lowered names of the accepted leads of that city
ByCity(deduplicated, cidade) ==
    LET same == SelectSeq(deduplicated, LAMBDA l : l.cidade = cidade)
    IN  [k \in 1..Len(same) |-> lower(same[k].nome)]

\* Deduplicator.deduplicate, the loop of lines 27-45 from lead i on
RECURSIVE DedupFrom(_, _, _, _)
DedupFrom(ls, i, deduplicated, normalized_existing) ==
    IF i > Len(ls) THEN deduplicated
    ELSE LET lead == ls[i]
             normalized_phone == _normalize_phone(lead.telefone)
         IN  IF normalized_phone # NoText /\ normalized_phone \in normalized_existing
             THEN DedupFrom(ls, i + 1, deduplicated, normalized_existing)
             ELSE IF _is_similar_name(lower(lead.nome), ByCity(deduplicated, lead.cidade))
             THEN DedupFrom(ls, i + 1, deduplicated, normalized_existing)
             ELSE DedupFrom(ls, i + 1, Append(deduplicated, lead),
                            IF normalized_phone # NoText
                            THEN normalized_existing \cup {normalized_phone}
                            ELSE normalized_existing)

Reverse(ls) == [k \in 1..Len(ls) |-> ls[Len(ls) + 1 - k]]

\* Faulty variant of deduplicate: the known phones are not normalized.
deduplicate_RawKnown(phones, ls) ==
    DedupFrom(ls, 1, <<>>, phones)

\* Faulty variant of deduplicate: each accepted lead is put in front.
deduplicate_Reversed(phones, ls) ==
    Reverse(DedupFrom(ls, 1, <<>>, {_normalize_phone(p) : p \in phones}))

\* Faulty variant of deduplicate: the last of two duplicates is kept.
deduplicate_LastWins(phones, ls) ==
    Reverse(DedupFrom(Reverse(ls), 1, <<>>, {_normalize_phone(p) : p \in phones}))

deduplicate(phones, ls) ==
    DedupFrom(ls, 1, <<>>, {_normalize_phone(p) : p \in phones})

\* ------------------------------------------------------------ Scoring
priority_nichos == {<<"d", "e", "n", "t", "i", "s", "t", "a">>, <<"c", "l", "í", "n", "i", "c", "a", " ", "e", "s", "t", "é", "t", "i", "c", "a">>, <<"c", "l", "i", "n", "i", "c", "a", " ", "e", "s", "t", "e", "t", "i", "c", "a">>}

\* needle in haystack, for strings
Contains(haystack, needle) ==
    \E i \in 1..(Len(haystack) - Len(needle) + 1) :
        SubSeq(haystack, i, i + Len(needle) - 1) = needle

\* Faulty variant of calculate: a social handle counts with a website too.
calculate_SocialAlways(lead) ==
    LET site_points ==
            (IF lead.site = NoText THEN 25
             ELSE IF Contains(lower(lead.site), <<"w", "i", "x">>) \/ Contains(lower(lead.site), <<"w", "o", "r", "d", "p", "r", "e", "s", "s">>)
                  THEN 15 ELSE 0)
            + (IF lead.instagram # NoText \/ lead.facebook # NoText THEN 20 ELSE 0)
        score == site_points
            + (IF lead.telefone # NoText THEN 10 ELSE 0)
            + (IF lead.email # NoText THEN 15 ELSE 0)
            + (IF lead.rating # NoNumber /\ lead.rating < 40 THEN 10 ELSE 0)
            + (IF lead.total_reviews # NoNumber /\ lead.total_reviews < 10 THEN 10 ELSE 0)
            + (IF lower(lead.nicho) \in priority_nichos THEN 10 ELSE 0)
    IN  Min(score, 100)

\* Scoring.calculate
calculate(lead) ==
    LET site_points ==
            IF lead.site = NoText
            THEN 25 + (IF lead.instagram # NoText \/ lead.facebook # NoText THEN 20 ELSE 0)
            ELSE IF Contains(lower(lead.site), <<"w", "i", "x">>) \/ Contains(lower(lead.site), <<"w", "o", "r", "d", "p", "r", "e", "s", "s">>)
                 THEN 15 ELSE 0
        score == site_points
            + (IF lead.telefone # NoText THEN 10 ELSE 0)
            + (IF lead.email # NoText THEN 15 ELSE 0)
            + (IF lead.rating # NoNumber /\ lead.rating < 40 THEN 10 ELSE 0)
            + (IF lead.total_reviews # NoNumber /\ lead.total_reviews < 10 THEN 10 ELSE 0)
            + (IF lower(lead.nicho) \in priority_nichos THEN 10 ELSE 0)
    IN  Min(score, 100)

\* Faulty variant of InsertByScore: the lowest score first.
RECURSIVE InsertByScore_Ascending(_, _)
InsertByScore_Ascending(sorted, lead) ==
    IF sorted = <<>> THEN <<lead>>
    ELSE IF Head(sorted).score <= lead.score
         THEN <<Head(sorted)>> \o InsertByScore_Ascending(Tail(sorted), lead)
         ELSE <<lead>> \o sorted

\* list.sort(key=score, reverse=True): stable, descending
RECURSIVE InsertByScore(_, _)
InsertByScore(sorted, lead) ==
    IF sorted = <<>> THEN <<lead>>
    ELSE IF Head(sorted).score >= lead.score
         THEN <<Head(sorted)>> \o InsertByScore(Tail(sorted), lead)
         ELSE <<lead>> \o sorted

RECURSIVE SortByScore(_)
SortByScore(ls) ==
    IF ls = <<>> THEN <<>>
    ELSE InsertByScore(SortByScore(SubSeq(ls, 1, Len(ls) - 1)), ls[Len(ls)])

\* ------------------------------------------------- the retrying fetcher
\* What session.get(..., timeout=30) / raise_for_status / json end with.
\* ClientResponseError (a bad status) and ClientConnectionError derive from
\* aiohttp.ClientError; the total timeout raises asyncio.TimeoutError, which
\* does not; CancelledError is a BaseException.
HttpOutcomes ==
    {"ok", "ClientResponseError", "ClientConnectionError", "TimeoutError",
     "CancelledError"}

\* retry=retry_if_exception_type(aiohttp.ClientError)
retry_if_exception_type(exc) == exc \in {"ClientResponseError", "ClientConnectionError"}

\* wait=wait_exponential(min=1, max=10), in seconds, after attempt n failed
wait_exponential(n) == Max(wait_min, Min(Pow2(n - 1), wait_max))

\* Faulty variant of ShouldStop: one attempt too many.
ShouldStop_Late(n) == n > stop_after_attempt

\* stop=stop_after_attempt(3)
ShouldStop(n) == n >= stop_after_attempt

Tasks == DOMAIN tasks
PrimaryTasks == {t \in Tasks : tasks[t].fonte = "google_places"}
SecondaryTasks == {t \in Tasks : tasks[t].fonte = "serpapi"}

\* The event loop runs its callbacks first in, first out: the first steps of
\* the tasks gather created come first, in the order of creation.
Started(t) == pc[t] # "ready"
MayStart(t) == running = NoTask /\ pc[t] = "ready" /\ \A u \in 1..(t - 1) : Started(u)
MayResume(t) == running = NoTask /\ \A u \in Tasks : Started(u)

Suspend == running' = NoTask
Resume(t) == running' = t

\* ------------------------------------------------ GooglePlacesScraper
\* search, line 80: the coroutine is started by the event loop
StartSearch(t) ==
    /\ phase = "collect"
    /\ t \in PrimaryTasks
    /\ MayStart(t)
    /\ pc' = [pc EXCEPT ![t] = "loop"]
    /\ Resume(t)
    /\ UNCHANGED <<outcome, cfgvars, mainvars, limvars, semaphore, tasks, kind, attempt,
                   timer, todo, token, pages, place, task_leads, world, sent>>

\* search, lines 90-95: the top of the page loop
LoopTop(t) ==
    /\ running = t
    /\ pc[t] = "loop"
    /\ IF token[t]
       THEN /\ pc' = [pc EXCEPT ![t] = "page_sleep"]
            /\ timer' = [timer EXCEPT ![t] = page_delay * TicksPerSecond]
            /\ Suspend
            /\ UNCHANGED <<kind, attempt, outcome>>
       ELSE /\ pc' = [pc EXCEPT ![t] = "rl_enter"]
            /\ kind' = [kind EXCEPT ![t] = "search"]
            /\ attempt' = [attempt EXCEPT ![t] = 1]
            /\ outcome' = [outcome EXCEPT ![t] = "none"]
            /\ UNCHANGED <<timer, running>>
    /\ UNCHANGED <<cfgvars, mainvars, limvars, semaphore, tasks,
                   todo, token, pages, place, task_leads, world, sent>>

\* search, line 93: asyncio.sleep(2) is over
PageWake(t) ==
    /\ MayResume(t)
    /\ pc[t] = "page_sleep"
    /\ timer[t] = 0
    /\ pc' = [pc EXCEPT ![t] = "rl_enter"]
    /\ kind' = [kind EXCEPT ![t] = "search"]
    /\ attempt' = [attempt EXCEPT ![t] = 1]
    /\ outcome' = [outcome EXCEPT ![t] = "none"]
    /\ Resume(t)
    /\ UNCHANGED <<cfgvars, mainvars, limvars, semaphore, tasks,
                   timer, todo, token, pages, place, task_leads, world, sent>>

\* _rate_limit, lines 40-47, run by the task that holds _rate_lock: the
\* first call is granted at once, a later one sleeps for what is missing of
\* the interval (keeping the lock) and is granted when it wakes.
wait_time == Max(0, interval - elapsed)

\* Faulty variant of Grant: the lock is not given back.
Grant_KeepsLock(t) ==
    /\ last_call_set' = TRUE
    /\ elapsed' = 0
    /\ rate_lock' = t
    /\ pc' = [pc EXCEPT ![t] = "granted"]
    /\ Resume(t)
    /\ UNCHANGED timer

Grant(t) ==
    /\ last_call_set' = TRUE
    /\ elapsed' = 0
    /\ rate_lock' = NoTask
    /\ pc' = [pc EXCEPT ![t] = "granted"]
    /\ Resume(t)
    /\ UNCHANGED timer

\* Faulty variant of RateCheck: the lock is given back before the sleep.
RateCheck_LockFreed(t) ==
    IF ~last_call_set
    THEN Grant(t)
    ELSE IF wait_time > 0
         THEN /\ rate_lock' = NoTask
              /\ timer' = [timer EXCEPT ![t] = wait_time]
              /\ pc' = [pc EXCEPT ![t] = "rl_sleep"]
              /\ Suspend
              /\ UNCHANGED <<last_call_set, elapsed>>
         ELSE Grant(t)

RateCheck(t) ==
    IF ~last_call_set
    THEN Grant(t)
    ELSE IF wait_time > 0
         THEN /\ rate_lock' = t
              /\ timer' = [timer EXCEPT ![t] = wait_time]
              /\ pc' = [pc EXCEPT ![t] = "rl_sleep"]
              /\ Suspend
              /\ UNCHANGED <<last_call_set, elapsed>>
         ELSE Grant(t)

\* _rate_limit, line 39: async with self._rate_lock
RateLimitEnter(t) ==
    /\ running = t
    /\ pc[t] = "rl_enter"
    /\ IF rate_lock # NoTask
       THEN /\ pc' = [pc EXCEPT ![t] = "lock_wait"]
            /\ Suspend
            /\ UNCHANGED <<limvars, timer>>
       ELSE RateCheck(t)
    /\ UNCHANGED <<outcome, cfgvars, mainvars, semaphore, tasks, kind, attempt,
                   todo, token, pages, place, task_leads, world, sent>>

\* _rate_limit, line 39: a waiter gets the released lock
LockAcquire(t) ==
    /\ MayResume(t)
    /\ pc[t] = "lock_wait"
    /\ rate_lock = NoTask
    /\ RateCheck(t)
    /\ UNCHANGED <<outcome, cfgvars, mainvars, semaphore, tasks, kind, attempt,
                   todo, token, pages, place, task_leads, world, sent>>

\* _rate_limit, lines 46-47: the limiter's sleep is over
RateWake(t) ==
    /\ MayResume(t)
    /\ pc[t] = "rl_sleep"
    /\ timer[t] = 0
    /\ Grant(t)
    /\ UNCHANGED <<outcome, cfgvars, mainvars, semaphore, tasks, kind, attempt,
                   todo, token, pages, place, task_leads, world, sent>>

\* _request, line 54: the request goes out
Send(t) ==
    /\ running = t
    /\ pc[t] = "granted"
    /\ pc' = [pc EXCEPT ![t] = "http"]
    /\ sent' = sent \cup {t}
    /\ Suspend
    /\ UNCHANGED <<outcome, cfgvars, mainvars, limvars, semaphore, tasks, kind, attempt,
                   timer, todo, token, pages, place, task_leads, world>>

\* What asyncio.gather keeps for a task that has ended.
Pending == [status |-> "pending", leads |-> <<>>, exc |-> ""]
Returned(ls) == [status |-> "list", leads |-> ls, exc |-> ""]
Raised(e) == [status |-> "exception", leads |-> <<>>, exc |-> e]

\* Faulty variant of CapReached: the cap is noticed one lead late.
CapReached_Late(ls) == Len(ls) > lead_cap

\* search, line 142: the hard cap
CapReached(ls) == Len(ls) >= lead_cap

\* the with-attempt block of _request_with_retry, lines 59-66, after attempt
\* n ended with exception exc: TRUE when another attempt follows
RetryAgain(exc, n) == retry_if_exception_type(exc) /\ ~ShouldStop(n)

\* _request, lines 54-56, for the text search: a page of results arrives
HttpOkSearch(t) ==
    /\ MayResume(t)
    /\ pc[t] = "http"
    /\ kind[t] = "search"
    /\ "ok" \in world.outcomes
    /\ \E n \in world.page_sizes, tk \in BOOLEAN :
        /\ tk => pages[t] + 1 < world.max_pages
        /\ todo' = [todo EXCEPT ![t] = n]
        /\ token' = [token EXCEPT ![t] = tk]
    /\ pages' = [pages EXCEPT ![t] = @ + 1]
    /\ pc' = [pc EXCEPT ![t] = "items"]
    /\ Resume(t)
    /\ UNCHANGED <<outcome, cfgvars, mainvars, limvars, semaphore, tasks, kind, attempt,
                   timer, place, task_leads, world, sent>>

\* search, lines 110-143: the details of one place arrive; the semaphore is
\* released, the place is skipped or becomes a lead, and the search returns
\* when the cap is reached
HttpOkDetail(t) ==
    /\ MayResume(t)
    /\ pc[t] = "http"
    /\ kind[t] = "detail"
    /\ "ok" \in world.outcomes
    /\ semaphore' = semaphore + 1
    /\ LET result == Details[place[t]]
           lead == PlacesLead(place[t], result, tasks[t].nicho, tasks[t].cidade)
           more == Append(task_leads[t], lead)
       IN  IF result.business_status # "OPERATIONAL"
           THEN /\ todo' = [todo EXCEPT ![t] = @ - 1]
                /\ pc' = [pc EXCEPT ![t] = "items"]
                /\ Resume(t)
                /\ UNCHANGED <<task_leads, results>>
           ELSE /\ task_leads' = [task_leads EXCEPT ![t] = more]
                /\ IF CapReached(more)
                   THEN /\ pc' = [pc EXCEPT ![t] = "returned"]
                        /\ results' = [results EXCEPT ![t] = Returned(more)]
                        /\ Suspend
                        /\ UNCHANGED todo
                   ELSE /\ todo' = [todo EXCEPT ![t] = @ - 1]
                        /\ pc' = [pc EXCEPT ![t] = "items"]
                        /\ Resume(t)
                        /\ UNCHANGED results
    /\ UNCHANGED <<outcome, cfgvars, phase, existing_phones, leads, sheet, limvars, tasks,
                   kind, attempt, timer, token, pages, place, world, sent>>

\* _request_with_retry, lines 59-66: the attempt failed; tenacity sleeps and
\* tries again, or re-raises, and then the exception leaves search (through
\* the semaphore's block, line 110, when it was a details request)
HttpFail(t) ==
    /\ MayResume(t)
    /\ pc[t] = "http"
    /\ \E exc \in world.outcomes \ {"ok"} :
        /\ outcome' = [outcome EXCEPT ![t] = exc]
        /\ IF RetryAgain(exc, attempt[t])
           THEN /\ timer' = [timer EXCEPT ![t] = wait_exponential(attempt[t]) * TicksPerSecond]
                /\ attempt' = [attempt EXCEPT ![t] = @ + 1]
                /\ pc' = [pc EXCEPT ![t] = "retry_sleep"]
                /\ UNCHANGED <<semaphore, results>>
           ELSE /\ semaphore' = IF kind[t] = "detail" THEN semaphore + 1 ELSE semaphore
                /\ pc' = [pc EXCEPT ![t] = "raised"]
                /\ results' = [results EXCEPT ![t] = Raised(exc)]
                /\ UNCHANGED <<timer, attempt>>
    /\ Suspend
    /\ UNCHANGED <<cfgvars, phase, existing_phones, leads, sheet, limvars, tasks,
                   kind, todo, token, pages, place, task_leads, world, sent>>

\* Faulty variant of RetryWake: the retry is sent without asking the limiter.
RetryWake_Unlimited(t) ==
    /\ MayResume(t)
    /\ pc[t] = "retry_sleep"
    /\ timer[t] = 0
    /\ pc' = [pc EXCEPT ![t] = "http"]
    /\ outcome' = [outcome EXCEPT ![t] = "none"]
    /\ Suspend
    /\ UNCHANGED <<cfgvars, mainvars, limvars, semaphore, tasks, kind, attempt,
                   timer, todo, token, pages, place, task_leads, world, sent>>

\* _request_with_retry, line 59: tenacity's sleep is over, the next attempt
RetryWake(t) ==
    /\ MayResume(t)
    /\ pc[t] = "retry_sleep"
    /\ timer[t] = 0
    /\ pc' = [pc EXCEPT ![t] = "rl_enter"]
    /\ outcome' = [outcome EXCEPT ![t] = "none"]
    /\ Resume(t)
    /\ UNCHANGED <<cfgvars, mainvars, limvars, semaphore, tasks, kind, attempt,
                   timer, todo, token, pages, place, task_leads, world, sent>>

\* Faulty variant of PermitFree: the semaphore never makes anyone wait.
PermitFree_Always == TRUE

\* asyncio.Semaphore(max_workers), line 110: a permit can be taken at once
PermitFree == semaphore > 0

\* search, line 110: the semaphore is taken for a details request
TakePermit(t) ==
    /\ semaphore' = semaphore - 1
    /\ kind' = [kind EXCEPT ![t] = "detail"]
    /\ attempt' = [attempt EXCEPT ![t] = 1]
    /\ outcome' = [outcome EXCEPT ![t] = "none"]
    /\ pc' = [pc EXCEPT ![t] = "rl_enter"]
    /\ Resume(t)

\* search, lines 103-110 and 145-148: the next result of the page, or the
\* end of the page
Items(t) ==
    /\ running = t
    /\ pc[t] = "items"
    /\ IF todo[t] = 0
       THEN /\ IF token[t]
               THEN /\ pc' = [pc EXCEPT ![t] = "loop"]
                    /\ UNCHANGED <<running, results>>
               ELSE /\ pc' = [pc EXCEPT ![t] = "returned"]
                    /\ results' = [results EXCEPT ![t] = Returned(task_leads[t])]
                    /\ Suspend
            /\ UNCHANGED <<semaphore, kind, attempt, outcome, todo, place>>
       ELSE \E item \in world.items :
            IF item.business_status # "OPERATIONAL" \/ item.place_id = NoPlace
            THEN /\ todo' = [todo EXCEPT ![t] = @ - 1]
                 /\ UNCHANGED <<pc, running, results, semaphore, kind, attempt, outcome, place>>
            ELSE /\ place' = [place EXCEPT ![t] = item.place_id]
                 /\ IF PermitFree
                    THEN TakePermit(t)
                    ELSE /\ pc' = [pc EXCEPT ![t] = "sem_wait"]
                         /\ Suspend
                         /\ UNCHANGED <<semaphore, kind, attempt, outcome>>
                 /\ UNCHANGED <<todo, results>>
    /\ UNCHANGED <<cfgvars, phase, existing_phones, leads, sheet, limvars, tasks,
                   timer, token, pages, task_leads, world, sent>>

\* search, line 110: a waiter gets a released permit
SemAcquire(t) ==
    /\ MayResume(t)
    /\ pc[t] = "sem_wait"
    /\ PermitFree
    /\ TakePermit(t)
    /\ UNCHANGED <<cfgvars, mainvars, limvars, tasks,
                   timer, todo, token, pages, place, task_leads, world, sent>>

\* the event loop's clock advances while no coroutine runs
Tick ==
    /\ running = NoTask
    /\ \/ \E t \in Tasks : timer[t] > 0
       \/ last_call_set /\ elapsed < interval
    /\ timer' = [t \in Tasks |-> Max(0, timer[t] - 1)]
    /\ elapsed' = IF last_call_set THEN Min(interval, elapsed + 1) ELSE elapsed
    /\ world' = [world EXCEPT !.utcnow = Min(MaxClock, @ + 1)]
    /\ UNCHANGED <<outcome, cfgvars, mainvars, running, rate_lock, last_call_set, semaphore,
                   tasks, pc, kind, attempt, todo, token, pages, place, task_leads,
                   sent>>

\* ------------------------------------------------------ SerpApiScraper
\* search, lines 26-31: the blocking call is handed to the executor
StartSerp(t) ==
    /\ phase = "collect"
    /\ t \in SecondaryTasks
    /\ MayStart(t)
    /\ pc' = [pc EXCEPT ![t] = "executor"]
    /\ UNCHANGED <<outcome, cfgvars, mainvars, running, limvars, semaphore, tasks, kind,
                   attempt, timer, todo, token, pages, place, task_leads, world, sent>>

\* What requests.get(..., timeout=30) / raise_for_status / json end with:
\* the failures of requests all derive from requests.RequestException.
SerpOutcomes == {"ok", "RequestException"}

\* Faulty variant of SerpResult: the failure of the request leaves the task.
SerpResult_Raises(out, found) ==
    IF out = "RequestException" THEN Raised(out) ELSE Returned(found)

\* _sync_search, lines 41-47 and 78: what the search gives back
SerpResult(out, found) ==
    IF out = "RequestException" THEN Returned(<<>>) ELSE Returned(found)

\* _sync_search, lines 33-78, in a worker thread: one request, whose
\* RequestException gives an empty list
SyncSearch(t) ==
    /\ t \in SecondaryTasks
    /\ pc[t] = "executor"
    /\ \E out \in world.serp_outcomes :
        LET found == [k \in 1..Len(world.local_results) |->
                        SerpLead(world.local_results[k], Details[world.local_results[k]],
                                 tasks[t].nicho, tasks[t].cidade)]
            result == SerpResult(out, found)
        IN  /\ outcome' = [outcome EXCEPT ![t] = out]
            /\ task_leads' = [task_leads EXCEPT ![t] = result.leads]
            /\ results' = [results EXCEPT ![t] = result]
            /\ pc' = [pc EXCEPT ![t] = IF result.status = "list" THEN "returned" ELSE "raised"]
    /\ sent' = sent \cup {t}
    /\ UNCHANGED <<cfgvars, phase, existing_phones, leads, sheet, running, limvars,
                   semaphore, tasks, kind, attempt, timer, todo, token, pages, place,
                   world>>

\* ------------------------------------------------------- ScraperApp.run
\* lines 28-35: GoogleSheetsClient(...) connects, or the run ends
\* Faulty variant of AfterConnect: the failure is logged and the run goes on.
AfterConnect_NoReturn(ok) == "load_phones"

\* lines 28-35: where run continues after the connection attempt
AfterConnect(ok) == IF ok THEN "load_phones" ELSE "aborted"

Connect ==
    /\ phase = "init"
    /\ \E ok \in world.connect :
        /\ sheet' = [sheet EXCEPT !.client = IF ok THEN "connected" ELSE "failed"]
        /\ phase' = AfterConnect(ok)
    /\ UNCHANGED <<cfgvars, existing_phones, results, leads, running, limvars,
                   semaphore, tasks, taskvars, world, sent>>

\* What a call of the sheet's API ends with: gspread raises APIError, a
\* GSpreadException, for a refused call; a failure of the connection is raised
\* by requests and is no GSpreadException.
SinkOutcomes == {"ok", "GSpreadException", "ConnectionError"}

\* except gspread.exceptions.GSpreadException
IsGSpreadException(exc) == exc = "GSpreadException"

\* a call of the sheet's API that the method survives
Survived(out) == out = "ok" \/ IsGSpreadException(out)

\* line 37 and GoogleSheetsClient.get_existing_phones: a read that fails
\* with a GSpreadException gives the empty set; another exception leaves
\* get_existing_phones and run
LoadPhones ==
    /\ phase = "load_phones"
    /\ \E out \in world.sink :
        /\ existing_phones' = IF out = "ok" THEN sheet.phones ELSE {}
        /\ phase' = IF Survived(out) THEN "create" ELSE "raised"
    /\ sheet' = [sheet EXCEPT !.reads = @ + 1]
    /\ UNCHANGED <<cfgvars, results, leads, running, limvars, semaphore, tasks,
                   taskvars, world, sent>>

\* lines 45-57: one task per city and niche (city-major) for the primary
\* source, then the same for the secondary source when its key is set
Pair(k) ==
    [nicho |-> nichos[((k - 1) % Len(nichos)) + 1],
     cidade |-> cidades[((k - 1) \div Len(nichos)) + 1]]

TaskList ==
    LET n == Len(cidades) * Len(nichos)
        primary == [k \in 1..n |->
            [fonte |-> "google_places", nicho |-> Pair(k).nicho, cidade |-> Pair(k).cidade]]
        secondary == [k \in 1..n |->
            [fonte |-> "serpapi", nicho |-> Pair(k).nicho, cidade |-> Pair(k).cidade]]
    IN  IF serpapi_key THEN primary \o secondary ELSE primary

\* lines 40-61: the tasks are created and gather starts them
CreateTasks ==
    /\ phase = "create"
    /\ tasks' = TaskList
    /\ LET T == DOMAIN TaskList
       IN  /\ pc' = [t \in T |-> "ready"]
           /\ kind' = [t \in T |-> "search"]
           /\ attempt' = [t \in T |-> 1]
           /\ outcome' = [t \in T |-> "none"]
           /\ timer' = [t \in T |-> 0]
           /\ todo' = [t \in T |-> 0]
           /\ token' = [t \in T |-> FALSE]
           /\ pages' = [t \in T |-> 0]
           /\ place' = [t \in T |-> NoPlace]
           /\ task_leads' = [t \in T |-> <<>>]
           /\ results' = [t \in T |-> Pending]
    /\ phase' = "collect"
    /\ UNCHANGED <<cfgvars, existing_phones, leads, sheet, running, limvars,
                   semaphore, world, sent>>

\* isinstance(result, Exception), line 64: CancelledError is a BaseException
IsException(r) == r.status = "exception" /\ r.exc # "CancelledError"

\* Faulty variant of Extend: the first failed task ends the loop.
RECURSIVE Extend_StopsAtError(_, _, _)
Extend_StopsAtError(rs, k, acc) ==
    IF k > Len(rs) THEN [leads |-> acc, ok |-> TRUE]
    ELSE IF IsException(rs[k]) THEN [leads |-> acc, ok |-> TRUE]
    ELSE IF rs[k].status = "list" THEN Extend_StopsAtError(rs, k + 1, acc \o rs[k].leads)
    ELSE [leads |-> acc, ok |-> FALSE]

\* Faulty variant of Extend: each list is put in front of the ones before it.
RECURSIVE Extend_Backwards(_, _, _)
Extend_Backwards(rs, k, acc) ==
    IF k > Len(rs) THEN [leads |-> acc, ok |-> TRUE]
    ELSE IF IsException(rs[k]) THEN Extend_Backwards(rs, k + 1, acc)
    ELSE IF rs[k].status = "list" THEN Extend_Backwards(rs, k + 1, rs[k].leads \o acc)
    ELSE [leads |-> acc, ok |-> FALSE]

\* lines 63-67 over the results from k on: the leads collected, and whether
\* the loop got through (extend raises TypeError on what is not iterable)
RECURSIVE Extend(_, _, _)
Extend(rs, k, acc) ==
    IF k > Len(rs) THEN [leads |-> acc, ok |-> TRUE]
    ELSE IF IsException(rs[k]) THEN Extend(rs, k + 1, acc)
    ELSE IF rs[k].status = "list" THEN Extend(rs, k + 1, acc \o rs[k].leads)
    ELSE [leads |-> acc, ok |-> FALSE]

\* lines 61-69: gather has every task's result; the lists are flattened
Aggregate ==
    /\ phase = "collect"
    /\ running = NoTask
    /\ \A t \in Tasks : results[t].status # "pending"
    /\ LET got == Extend(results, 1, <<>>)
       IN  /\ leads' = got.leads
           /\ phase' = IF got.ok THEN "dedup" ELSE "crashed"
    /\ UNCHANGED <<cfgvars, existing_phones, results, sheet, running, limvars,
                   semaphore, tasks, taskvars, world, sent>>

\* Faulty variant of Dedup: the Deduplicator keeps the lowered name in the lead.
Dedup_LowersNames ==
    /\ phase = "dedup"
    /\ leads' = LET out == deduplicate(existing_phones, leads)
                IN  [k \in 1..Len(out) |-> [out[k] EXCEPT !.nome = lower(@)]]
    /\ phase' = "score"
    /\ UNCHANGED <<cfgvars, existing_phones, results, sheet, running, limvars,
                   semaphore, tasks, taskvars, world, sent>>

\* lines 71-72
Dedup ==
    /\ phase = "dedup"
    /\ leads' = deduplicate(existing_phones, leads)
    /\ phase' = "score"
    /\ UNCHANGED <<cfgvars, existing_phones, results, sheet, running, limvars,
                   semaphore, tasks, taskvars, world, sent>>

\* Faulty variant of Score: the leads are scored before they are deduplicated.
Score_BeforeDedup ==
    /\ phase = "dedup"
    /\ leads' = [k \in 1..Len(leads) |-> [leads[k] EXCEPT !.score = 1]]
    /\ phase' = "sort"
    /\ UNCHANGED <<cfgvars, existing_phones, results, sheet, running, limvars,
                   semaphore, tasks, taskvars, world, sent>>

\* lines 74-75
Score ==
    /\ phase = "score"
    /\ leads' = [k \in 1..Len(leads) |-> [leads[k] EXCEPT !.score = calculate(leads[k])]]
    /\ phase' = "sort"
    /\ UNCHANGED <<cfgvars, existing_phones, results, sheet, running, limvars,
                   semaphore, tasks, taskvars, world, sent>>

\* line 77
Sort ==
    /\ phase = "sort"
    /\ leads' = SortByScore(leads)
    /\ phase' = "persist"
    /\ UNCHANGED <<cfgvars, existing_phones, results, sheet, running, limvars,
                   semaphore, tasks, taskvars, world, sent>>

\* line 78 and GoogleSheetsClient.append_leads: nothing is written for an
\* empty list; a header check or an append that fails with a GSpreadException
\* is only logged; another exception leaves append_leads and run
Persist ==
    /\ phase = "persist"
    /\ IF leads = <<>>
       THEN /\ phase' = "done"
            /\ UNCHANGED sheet
       ELSE \E head \in world.sink, rows \in world.sink :
            IF ~Survived(head)
            THEN /\ phase' = "raised"
                 /\ UNCHANGED sheet
            ELSE /\ sheet' = [sheet EXCEPT
                                !.header = @ \/ head = "ok",
                                !.rows = IF rows = "ok" THEN @ \o leads ELSE @]
                 /\ phase' = IF Survived(rows) THEN "done" ELSE "raised"
    /\ UNCHANGED <<cfgvars, existing_phones, results, leads, running, limvars,
                   semaphore, tasks, taskvars, world, sent>>

\* ----------------------------------------------------------------- Init
\* A result of the text search, as search reads it.
Item(status, id) == [business_status |-> status, place_id |-> id]

\* Results of each kind search tells apart: one to fetch, one that is not
\* operational, one without an identifier, one whose details say closed.
AllItems ==
    {Item("OPERATIONAL", "p2"), Item("CLOSED_PERMANENTLY", "p2"),
     Item("OPERATIONAL", NoPlace), Item("OPERATIONAL", "p3")}

\* The run before ScraperApp.run starts, for one configuration and one
\* behaviour of the servers.
Start(cs, ns, key, iv, w, known) ==
    /\ cidades = cs
    /\ nichos = ns
    /\ serpapi_key = key
    /\ interval = iv
    /\ world = w
    /\ phase = "init"
    /\ existing_phones = {}
    /\ results = <<>>
    /\ leads = <<>>
    /\ sheet = [client |-> "none", header |-> FALSE, phones |-> known, rows |-> <<>>,
                reads |-> 0]
    /\ running = NoTask
    /\ rate_lock = NoTask
    /\ last_call_set = FALSE
    /\ elapsed = 0
    /\ semaphore = max_workers
    /\ tasks = <<>>
    /\ pc = <<>>
    /\ kind = <<>>
    /\ attempt = <<>>
    /\ outcome = <<>>
    /\ timer = <<>>
    /\ todo = <<>>
    /\ token = <<>>
    /\ pages = <<>>
    /\ place = <<>>
    /\ task_leads = <<>>
    /\ sent = {}

\* What the network and the sheet may do in one run.
World(connect, sink, outcomes, sizes, max_pages, items, serp, local) ==
    [connect |-> connect, sink |-> sink, outcomes |-> outcomes, page_sizes |-> sizes,
     max_pages |-> max_pages, items |-> items, serp_outcomes |-> serp,
     local_results |-> local, utcnow |-> 0]

Open == Item("OPERATIONAL", "p1")
KnownPhone == <<"+", "5", "5", "1", "1", "9", "1", "2", "3", "4", "5", "6", "7", "8">>

\* One task per city, any of which may time out or be cancelled; the sheet
\* may refuse the connection, the read and the writes.
InitIsolation ==
    Start(SubSeq(CidadeNames, 1, MaxCidades), SubSeq(NichoNames, 1, 1), FALSE,
          MaxInterval * TicksPerSecond,
          World(BOOLEAN, SinkOutcomes,
                {"ok", "TimeoutError", "CancelledError"}, {1}, 1, {Open},
                {"ok"}, <<>>),
          {})

\* Two tasks of one city whose requests may fail in every way.
InitRetry ==
    \E iv \in 1..MaxInterval :
        Start(SubSeq(CidadeNames, 1, 1), NichoNames, FALSE, iv * TicksPerSecond,
              World({TRUE}, {"ok"}, HttpOutcomes \ {"CancelledError"}, {1}, 1, {Open},
                    {"ok"}, <<>>),
              {})

\* One task that pages through results of every kind.
InitPaging ==
    Start(SubSeq(CidadeNames, 1, 1), SubSeq(NichoNames, 1, 1), FALSE, TicksPerSecond,
          World({TRUE}, {"ok"}, {"ok"}, 0..MaxResults, MaxPages, AllItems,
                {"ok"}, <<>>),
          {KnownPhone})

\* One task whose pages hold more places than the cap allows.
InitCap ==
    Start(SubSeq(CidadeNames, 1, 1), SubSeq(NichoNames, 1, 1), FALSE, TicksPerSecond,
          World({TRUE}, {"ok"}, {"ok"}, {(lead_cap \div 2) + MaxResults}, MaxPages + 1,
                {Open}, {"ok"}, <<>>),
          {})

\* Both sources for one city and niche.
InitBoth ==
    Start(SubSeq(CidadeNames, 1, 1), SubSeq(NichoNames, 1, 1), TRUE, TicksPerSecond,
          World({TRUE}, {"ok"}, {"ok", "ClientConnectionError"}, {1}, 1,
                {Item("OPERATIONAL", "p2")},
                SerpOutcomes, <<"p1", "p2">>),
          {KnownPhone})

\* Both sources for one city and niche, every request answered, with the
\* same place.
InitOrder ==
    Start(SubSeq(CidadeNames, 1, 1), SubSeq(NichoNames, 1, 1), TRUE, TicksPerSecond,
          World({TRUE}, {"ok"}, {"ok"}, {1}, 1, {Open}, {"ok"}, <<Open.place_id>>),
          {})

Init ==
    \/ InitIsolation
    \/ InitRetry
    \/ InitOrder
    \/ InitPaging
    \/ InitCap
    \/ InitBoth

\* More tasks than the semaphore has permits.
InitSem ==
    Start(SubSeq(CidadeNames, 1, max_workers + 1), SubSeq(NichoNames, 1, 1), FALSE,
          TicksPerSecond,
          World({TRUE}, {"ok"}, {"ok"}, {1}, 1, {Open}, {"ok"}, <<>>),
          {})

\* Lead(...), models.py: a lead as a source adapter constructs it
Lead(nome, nicho, cidade, telefone, email, site, instagram, facebook, rating, total_reviews) ==
    [nome |-> nome, nicho |-> nicho, cidade |-> cidade, telefone |-> telefone,
     email |-> email, site |-> site, instagram |-> instagram, facebook |-> facebook,
     rating |-> rating, total_reviews |-> total_reviews,
     score |-> 0, fonte |-> "google_places", data_coleta |-> 0,
     place_id |-> NoPlace]

\* Names with their cities for the leads handed to the Deduplicator: two
\* names alike but for one letter and the case in one city, one of them in a
\* second city too, and a name unlike them; and phones, two of them unlike.
NamedPlaces ==
    {<<<<"S", "o", "r", "r", "i", "s", "o">>, CidadeNames[1]>>,
     <<<<"S", "O", "R", "R", "I", "Z", "O">>, CidadeNames[1]>>,
     <<<<"S", "O", "R", "R", "I", "Z", "O">>, CidadeNames[2]>>,
     <<<<"O", "t", "i", "c", "a">>, CidadeNames[1]>>}
OtherPhone == <<"+", "5", "5", "1", "1", "9", "8", "8", "8", "8", "7", "7", "7", "7">>
LeadPhones == {NoText, KnownPhone, OtherPhone}

\* the known phone as the sheet holds it, formatted unlike the leads' phones
SheetPhone == <<"(", "1", "1", ")", " ", "9", "1", "2", "3", "4", "-", "5", "6", "7", "8">>

DedupLeads ==
    {Lead(nc[1], NichoNames[1], nc[2], p, NoText, NoText, NoText, NoText, NoNumber, NoNumber) :
        nc \in NamedPlaces, p \in LeadPhones}

\* Every combination of the fields Scoring.calculate reads.
Sites == {NoText, <<"a", ".", "w", "i", "x", ".", "c", "o", "m">>, <<"W", "o", "r", "d", "P", "r", "e", "s", "s", ".", "o", "r", "g">>, <<"a", ".", "c", "o", "m">>}
Handles == {NoText, <<"@", "a">>}
Emails == {NoText, <<"a", "@", "b">>}
ScoredNichos == {NichoNames[1], NichoNames[2], <<"C", "L", "Í", "N", "I", "C", "A", " ", "E", "S", "T", "É", "T", "I", "C", "A">>}

ScoreLeads ==
    {Lead(<<"O", "t", "i", "c", "a">>, nicho, CidadeNames[1], telefone, email, site, instagram, facebook, rating, total_reviews) :
        nicho \in ScoredNichos, telefone \in {NoText, OtherPhone}, email \in Emails,
        site \in Sites, instagram \in Handles, facebook \in Handles,
        rating \in {NoNumber, 0, 39, 40}, total_reviews \in {NoNumber, 0, 9, 10}}

\* Phones as they may be written: absent, the country code alone, without a
\* digit, the country code twice, the country code once.
PhoneSamples ==
    {NoText, <<"5", "5">>, <<"n", "/", "a">>, <<"5", "5", "5", "5", "-", "1">>, <<"5", "5", "-", "1">>}

PhoneLeads ==
    {Lead(n, NichoNames[1], CidadeNames[1], p, NoText, NoText, NoText, NoText, NoNumber, NoNumber) :
        n \in {<<"S", "o", "r", "r", "i", "s", "o">>, <<"O", "t", "i", "c", "a">>}, p \in PhoneSamples}

\* known phones of the sheet: one that normalizes to nothing, one to "1"
SheetSamples == {<<"5", "5">>, <<"(", "5", "5", ")", " ", "1">>}

UpToMaxLeads(S) == UNION {[1..n -> S] : n \in 0..MaxLeads}

\* the leads gather returned, with the phones read from the sheet
ProcessorInputs ==
    ((UpToMaxLeads(DedupLeads) \cup {<<l>> : l \in ScoreLeads}) \X {{}, {SheetPhone}})
        \cup (UpToMaxLeads(PhoneLeads) \X {SheetSamples})

\* ScraperApp.run at line 63, gather having returned the list L of one task,
\* with the phones K read from the sheet: the Deduplicator, Scoring and the
\* sort applied to any leads and any known phones.
InitProcessors ==
    \E input \in ProcessorInputs :
      LET L == input[1]
          K == input[2]
      IN
        /\ cidades = SubSeq(CidadeNames, 1, 1)
        /\ nichos = SubSeq(NichoNames, 1, 1)
        /\ serpapi_key = FALSE
        /\ interval = TicksPerSecond
        /\ world = World({TRUE}, {"ok"}, {"ok"}, {1}, 1, {Open}, {"ok"}, <<>>)
        /\ phase = "collect"
        /\ existing_phones = K
        /\ results = <<Returned(L)>>
        /\ leads = <<>>
        /\ sheet = [client |-> "connected", header |-> FALSE, phones |-> K, rows |-> <<>>,
                    reads |-> 1]
        /\ running = NoTask
        /\ rate_lock = NoTask
        /\ last_call_set = TRUE
        /\ elapsed = 0
        /\ semaphore = max_workers
        /\ tasks = <<[fonte |-> "google_places", nicho |-> NichoNames[1], cidade |-> CidadeNames[1]]>>
        /\ pc = <<"returned">>
        /\ kind = <<"search">>
        /\ attempt = <<1>>
        /\ outcome = <<"none">>
        /\ timer = <<0>>
        /\ todo = <<0>>
        /\ token = <<FALSE>>
        /\ pages = <<1>>
        /\ place = <<NoPlace>>
        /\ task_leads = <<L>>
        /\ sent = {1}

\* With no more tasks than permits nobody waits for the semaphore.
Next ==
    \/ Connect
    \/ LoadPhones
    \/ CreateTasks
    \/ \E t \in Tasks : StartSearch(t)
    \/ \E t \in Tasks : LoopTop(t)
    \/ \E t \in Tasks : PageWake(t)
    \/ \E t \in Tasks : RateLimitEnter(t)
    \/ \E t \in Tasks : LockAcquire(t)
    \/ \E t \in Tasks : RateWake(t)
    \/ \E t \in Tasks : Send(t)
    \/ \E t \in Tasks : HttpOkSearch(t)
    \/ \E t \in Tasks : HttpOkDetail(t)
    \/ \E t \in Tasks : HttpFail(t)
    \/ \E t \in Tasks : RetryWake(t)
    \/ \E t \in Tasks : Items(t)
    \/ \E t \in Tasks : StartSerp(t)
    \/ \E t \in Tasks : SyncSearch(t)
    \/ Tick
    \/ Aggregate
    \/ Dedup
    \/ Score
    \/ Sort
    \/ Persist

NextSem ==
    \/ Next
    \/ \E t \in Tasks : SemAcquire(t)

Spec == Init /\ [][Next]_vars

SpecSem == (Init \/ InitSem) /\ [][NextSem]_vars

\* What the scheduling gives: the clock advances, so every sleep ends; every
\* HTTP call is answered; the event loop runs the callbacks that are ready
\* (a task to start, a sleeper to wake, a waiter of the lock or of the
\* semaphore to admit); the coroutine that runs goes on to its next await;
\* the executor's thread does its call.
Fairness ==
    /\ WF_vars(Tick)
    /\ WF_vars(\E t \in Tasks : HttpOkSearch(t) \/ HttpOkDetail(t) \/ HttpFail(t))
    /\ WF_vars(\E t \in Tasks : StartSearch(t) \/ StartSerp(t) \/ PageWake(t) \/ RateWake(t)
                                  \/ RetryWake(t) \/ LockAcquire(t) \/ SemAcquire(t))
    /\ WF_vars(\E t \in Tasks : LoopTop(t) \/ RateLimitEnter(t) \/ Send(t) \/ Items(t))
    /\ WF_vars(\E t \in Tasks : SyncSearch(t))

\* The run of InitSem at the moment the limiter has let the last of the
\* searches out, an interval after the one before it, and no search is
\* answered yet: every task awaits its response, no permit is taken and the
\* lock is free.
InitAllSent ==
    /\ cidades = SubSeq(CidadeNames, 1, max_workers + 1)
    /\ nichos = SubSeq(NichoNames, 1, 1)
    /\ serpapi_key = FALSE
    /\ interval = TicksPerSecond
    /\ world = [World({TRUE}, {"ok"}, {"ok"}, {1}, 1, {Open}, {"ok"}, <<>>)
                    EXCEPT !.utcnow = Min(MaxClock, max_workers * interval)]
    /\ phase = "collect"
    /\ existing_phones = {}
    /\ leads = <<>>
    /\ sheet = [client |-> "connected", header |-> FALSE, phones |-> {}, rows |-> <<>>,
                reads |-> 1]
    /\ running = NoTask
    /\ rate_lock = NoTask
    /\ last_call_set = TRUE
    /\ elapsed = 0
    /\ semaphore = max_workers
    /\ tasks = TaskList
    /\ LET T == DOMAIN TaskList
       IN  /\ pc = [t \in T |-> "http"]
           /\ kind = [t \in T |-> "search"]
           /\ attempt = [t \in T |-> 1]
           /\ outcome = [t \in T |-> "none"]
           /\ timer = [t \in T |-> 0]
           /\ todo = [t \in T |-> 0]
           /\ token = [t \in T |-> FALSE]
           /\ pages = [t \in T |-> 0]
           /\ place = [t \in T |-> NoPlace]
           /\ task_leads = [t \in T |-> <<>>]
           /\ results = [t \in T |-> Pending]
           /\ sent = T

SpecLive == (Init \/ InitAllSent) /\ [][NextSem]_vars /\ Fairness

\* lines 63-78 of run, after the collection
NextProcessors ==
    \/ Aggregate
    \/ Dedup
    \/ Score
    \/ Sort
    \/ Persist

SpecProcessors == InitProcessors /\ [][NextProcessors]_vars

\* =============================================================== claims
Ended(t) == results[t].status # "pending"
Failed(t) == results[t].status = "exception" /\ results[t].exc # "CancelledError"
Cancelled(t) == results[t].status = "exception" /\ results[t].exc = "CancelledError"

\* what task t gives to the aggregate: its list, or nothing when it failed
Contribution(t) == IF results[t].status = "list" THEN results[t].leads ELSE <<>>

RECURSIVE Contributions(_)
Contributions(n) == IF n = 0 THEN <<>> ELSE Contributions(n - 1) \o Contribution(n)

\* C1: a task that raises an ordinary error changes nothing of its
\* siblings (their position, their leads, their result), it never stops the
\* aggregation, and the aggregate handed to Dedup holds the leads of every
\* task that returned, the failed tasks adding nothing.
C1_FailureTouchesNoSibling ==
    \A t \in Tasks :
        (~Ended(t) /\ results'[t].status = "exception")
            => \A u \in Tasks \ {t} :
                /\ pc'[u] = pc[u]
                /\ task_leads'[u] = task_leads[u]
                /\ results'[u] = results[u]

C1_AggregateHoldsAll ==
    /\ phase = "dedup" => leads = Contributions(Len(tasks))
    /\ phase = "crashed" => \E t \in Tasks : Cancelled(t)

C1_Isolation == [](C1_AggregateHoldsAll) /\ [][C1_FailureTouchesNoSibling]_vars

C1_Witness ==
    /\ phase = "dedup"
    /\ \E t \in Tasks : Failed(t)
    /\ Cardinality({u \in Tasks : Contribution(u) # <<>>}) >= 2
    /\ Len(leads) >= 2

\* C2: when a task ends cancelled, the run is not stopped: the results are
\* aggregated and the run goes on to Dedup, Score, Sort and Persist.
C2_CancelledTaskIsIsolated ==
    (\E t \in Tasks : Cancelled(t)) => phase # "crashed"

\* C3: two successive grants of the rate limiter are at least the interval
\* 1 / rate_limit_per_second apart, whoever asks, and the first grant is
\* given to a caller that has not waited.
IsGranted(t) == pc[t] # "granted" /\ pc'[t] = "granted"

C3_GrantStep ==
    \A t \in Tasks :
        IsGranted(t) =>
            IF last_call_set THEN elapsed >= interval ELSE pc[t] = "rl_enter"

C3_Spacing == [][C3_GrantStep]_vars

C3_Witness ==
    \E t, u \in Tasks :
        /\ pc[t] = "granted"
        /\ kind[t] = "detail"
        /\ pc[u] = "lock_wait"
        /\ elapsed = 0

\* C4: a request answered with a bad status is attempted once and its
\* failure leaves the task at once: it is never followed by a retry.
C4_BadStatusNotRetried ==
    \A t \in Tasks :
        outcome[t] = "ClientResponseError" => pc[t] = "raised" /\ attempt[t] = 1

\* C5: a request that keeps failing with a connection error is attempted at
\* most 3 times; the wait after the first failure is 1 second, after the
\* second 2 seconds, never more than 10; the third failure is raised to the
\* caller, and an attempt that succeeds is the last of its request.
C5_AttemptStep ==
    \A t \in Tasks :
        /\ (pc[t] = "http" /\ pc'[t] = "retry_sleep") =>
            /\ attempt[t] < 3
            /\ attempt'[t] = attempt[t] + 1
            /\ attempt[t] = 1 => timer'[t] = 1 * TicksPerSecond
            /\ attempt[t] = 2 => timer'[t] = 2 * TicksPerSecond
            /\ timer'[t] <= 10 * TicksPerSecond
        /\ (pc[t] = "retry_sleep" /\ pc'[t] # "retry_sleep") => timer[t] = 0
        /\ (pc[t] = "http" /\ attempt[t] = 3 /\ outcome'[t] = "ClientConnectionError") =>
            /\ pc'[t] = "raised"
            /\ results'[t] = Raised("ClientConnectionError")
        /\ (pc[t] = "http" /\ pc'[t] \in {"items", "returned"}) =>
            attempt'[t] = attempt[t]

C5_RetryBound ==
    [](\A t \in Tasks : attempt[t] \in 1..3) /\ [][C5_AttemptStep]_vars

C5_Witness ==
    \E t \in Tasks :
        /\ pc[t] = "raised"
        /\ attempt[t] = 3
        /\ results[t] = Raised("ClientConnectionError")

\* C6: a request that times out is retried like one that met a connection
\* error: a task fails by timeout only after 3 attempts.
C6_TimeoutRetried ==
    \A t \in Tasks :
        (results[t].status = "exception" /\ results[t].exc = "TimeoutError")
            => attempt[t] = 3

\* C7: at most max_workers = 5 detail fetches are in flight, however many
\* searches run, and every permit taken is given back when its detail fetch
\* ends, by an answer or by an exception.
Holding(t) ==
    /\ kind[t] = "detail"
    /\ pc[t] \in {"rl_enter", "lock_wait", "rl_sleep", "granted", "http", "retry_sleep"}

InFlight == {t \in Tasks : Holding(t)}

C7_DetailBound ==
    /\ Cardinality(InFlight) <= 5
    /\ semaphore >= 0
    /\ semaphore + Cardinality(InFlight) = max_workers

C7_Witness ==
    /\ Cardinality(InFlight) = 5
    /\ \E t \in Tasks : pc[t] = "sem_wait"

\* C8: a request is sent only by a task that has just been granted by the
\* rate limiter, a grant is used for one request, and this holds for the
\* text search, a further page, a details request and each retry alike.
C8_SendStep ==
    \A t \in Tasks :
        /\ (pc'[t] = "http" /\ pc[t] # "http") => pc[t] = "granted"
        /\ (pc[t] = "granted" /\ pc'[t] # "granted") => pc'[t] = "http"
        /\ IsGranted(t) => last_call_set' /\ elapsed' = 0 /\ rate_lock' = NoTask

C8_GrantPerRequest == [][C8_SendStep]_vars

C8_Witness ==
    \E t \in Tasks :
        /\ pc[t] = "http"
        /\ kind[t] = "detail"
        /\ attempt[t] = 3

\* C9: a search never holds more than 60 leads, and with the 60th it has
\* returned them: nothing more is asked, whatever is left of the page and
\* whether or not a continuation token remains.
C9_HardCap ==
    \A t \in PrimaryTasks :
        /\ Len(task_leads[t]) <= 60
        /\ Len(task_leads[t]) = 60 =>
            /\ pc[t] = "returned"
            /\ results[t] = Returned(task_leads[t])

C9_Witness ==
    \E t \in PrimaryTasks :
        /\ Len(task_leads[t]) = 60
        /\ token[t]
        /\ todo[t] > 1

\* C10: when the connection to the sheet fails the run is over: no phones
\* are read, no task is created, no request is sent, nothing is appended.
C10_ConnectFailureEndsRun ==
    sheet.client = "failed" =>
        /\ phase = "aborted"
        /\ sheet.reads = 0
        /\ existing_phones = {}
        /\ tasks = <<>>
        /\ sent = {}
        /\ sheet.rows = <<>>
        /\ ~sheet.header

C10_Witness == phase = "aborted" /\ sheet.client = "failed"

\* the phases of a run in their order, and the ways a run stops short
PhaseOrder ==
    <<"init", "load_phones", "create", "collect", "dedup", "score", "sort", "persist", "done">>
Rank(p) == CHOOSE i \in 1..Len(PhaseOrder) : PhaseOrder[i] = p
Stopped == {"aborted", "crashed", "raised"}

Sorted(ls) == \A k \in 1..(Len(ls) - 1) : ls[k].score >= ls[k + 1].score

C11_PhaseStep ==
    phase' # phase =>
        /\ phase \in {PhaseOrder[i] : i \in 1..(Len(PhaseOrder) - 1)}
        /\ phase' \in Stopped \/ Rank(phase') = Rank(phase) + 1
        /\ phase' = "dedup" => tasks # <<>> /\ \A t \in Tasks : Ended(t)
        /\ phase' = "score" => leads' = deduplicate(existing_phones, leads)
        /\ phase' = "persist" => Sorted(leads')

C11_PhasesPassed ==
    /\ Rank(IF phase \in Stopped THEN "init" ELSE phase) > Rank("load_phones") => sheet.reads = 1
    /\ Rank(IF phase \in Stopped THEN "init" ELSE phase) < Rank("done") => sheet.rows = <<>>
    /\ phase = "done" => \A t \in Tasks : Ended(t)

\* C11: the phases of a run follow one another in the order Load-Known-
\* Phones, Collect, Dedup, Score, Sort, Persist, Done, none skipped and none
\* entered twice: Dedup starts when every task has ended, Score on the output
\* of Dedup, Persist on the sorted leads, and rows are written by Persist only.
C11_PipelineOrder == [](C11_PhasesPassed) /\ [][C11_PhaseStep]_vars

C11_Witness ==
    /\ phase = "done"
    /\ sheet.rows # <<>>
    /\ \E t \in Tasks : Failed(t)

\* C12: a failure of the sheet while the known phones are read, the header
\* is checked or the rows are appended never ends the run: the run of a
\* connected sheet is never left by an exception of the sheet.
C12_SinkFailuresAbsorbed ==
    sheet.client = "connected" => phase # "raised"

C13_SerpStep ==
    \A t \in SecondaryTasks :
        (pc[t] = "executor" /\ outcome'[t] = "RequestException") =>
            /\ results'[t] = Returned(<<>>)
            /\ phase' = phase
            /\ \A u \in Tasks \ {t} :
                results'[u] = results[u] /\ task_leads'[u] = task_leads[u]

C13_SerpNeverRaises ==
    /\ \A t \in SecondaryTasks : results[t].status # "exception"
    /\ (\E t \in SecondaryTasks : outcome[t] = "RequestException") =>
        /\ phase \notin Stopped
        /\ phase = "dedup" => leads = Contributions(Len(tasks))

\* C13: a search of the secondary source whose request fails returns the
\* empty list and never raises; the run is not stopped and the leads of the
\* other tasks reach Dedup untouched.
C13_SecondaryFailureIsEmpty == [](C13_SerpNeverRaises) /\ [][C13_SerpStep]_vars

C13_Witness ==
    /\ phase = "done"
    /\ \E t \in SecondaryTasks : outcome[t] = "RequestException"
    /\ \E t \in PrimaryTasks : results[t].status = "list" /\ results[t].leads # <<>>
    /\ sheet.rows # <<>>

\* what the Deduplicator was given, its output being leads at phase "score"
Input == Contributions(Len(tasks))
Phone(l) == _normalize_phone(l.telefone)
Known == {_normalize_phone(p) : p \in existing_phones}
Range(ls) == {ls[k] : k \in 1..Len(ls)}

\* C14: no lead of the output of deduplicate has a non-empty normalized
\* phone that is a normalized known phone, and no two leads of the output
\* have the same non-empty normalized phone.
C14_DedupPhones ==
    phase = "score" =>
        /\ \A k \in 1..Len(leads) : Phone(leads[k]) # NoText => Phone(leads[k]) \notin Known
        /\ \A j, k \in 1..Len(leads) :
            (j < k /\ Phone(leads[j]) = Phone(leads[k])) => Phone(leads[k]) = NoText

C14_Witness ==
    /\ phase = "score"
    /\ Len(Input) = 3
    /\ Phone(Input[1]) \in Known \ {NoText}
    /\ Phone(Input[2]) = Phone(Input[3])
    /\ Phone(Input[2]) \notin Known \cup {NoText}
    /\ Input[2].cidade # Input[3].cidade
    /\ leads = <<Input[2]>>

\* the lead at i of the input is in the output: of equal leads the first is
Accepted(i) == Input[i] \in Range(leads) /\ \A k \in 1..(i - 1) : Input[k] # Input[i]
AlikeNames(later, earlier) == RatioAtLeast80(lower(later.nome), lower(earlier.nome))

\* the phone of the lead at i is no reason to drop it
PhoneIsNew(i) ==
    \/ Phone(Input[i]) = NoText
    \/ /\ Phone(Input[i]) \notin Known
       /\ \A k \in 1..(i - 1) : Accepted(k) => Phone(Input[k]) # Phone(Input[i])

\* C15: a lead whose phone is new is dropped only when its name is alike
\* (ratio >= 0.8, whatever the case) to the name of a lead accepted before it
\* in the same city; of two leads with alike names and distinct unknown
\* phones both are kept when the cities differ and the first only when the
\* cities are the same.
C15_FuzzyCityScoped ==
    phase = "score" =>
        /\ \A i \in 1..Len(Input) :
            (PhoneIsNew(i) /\ Input[i] \notin Range(leads)) =>
                \E k \in 1..(i - 1) :
                    /\ Accepted(k)
                    /\ Input[k].cidade = Input[i].cidade
                    /\ AlikeNames(Input[i], Input[k])
        /\ ( /\ Len(Input) = 2
             /\ AlikeNames(Input[2], Input[1])
             /\ Phone(Input[1]) # Phone(Input[2])
             /\ Phone(Input[1]) \notin Known \cup {NoText}
             /\ Phone(Input[2]) \notin Known \cup {NoText} ) =>
                leads = IF Input[1].cidade = Input[2].cidade THEN <<Input[1]>> ELSE Input

C15_Witness ==
    /\ phase = "score"
    /\ Len(Input) = 2
    /\ Input[1].nome # Input[2].nome
    /\ AlikeNames(Input[2], Input[1])
    /\ Phone(Input[1]) # Phone(Input[2])
    /\ Phone(Input[1]) \notin Known \cup {NoText}
    /\ Phone(Input[2]) \notin Known \cup {NoText}
    /\ Input[1].cidade # Input[2].cidade
    /\ leads = Input

\* C16: deduplicate applied to its own output, with the same known phones,
\* gives that output again.
C16_DedupIdempotent ==
    phase = "score" => deduplicate(existing_phones, leads) = leads

C16_Witness ==
    /\ phase = "score"
    /\ Len(leads) = 2
    /\ Len(Input) = 3
    /\ deduplicate(existing_phones, leads) = leads

\* ls is made of elements of of, in the order they have in it
RECURSIVE IsSubsequence(_, _)
IsSubsequence(ls, of) ==
    IF ls = <<>> THEN TRUE
    ELSE IF of = <<>> THEN FALSE
    ELSE IF Head(ls) = Head(of) THEN IsSubsequence(Tail(ls), Tail(of))
    ELSE IsSubsequence(ls, Tail(of))

Duplicates(later, earlier) ==
    \/ Phone(later) # NoText /\ Phone(later) = Phone(earlier)
    \/ later.cidade = earlier.cidade /\ AlikeNames(later, earlier)

\* C17: the output of deduplicate is a subsequence of its input, and of two
\* leads of the input that are duplicates (the same non-empty normalized
\* phone, or the same city and alike names) the later one is dropped when the
\* earlier one is accepted; a lead whose phone is not known is dropped for a
\* lead accepted before it only.
C17_FirstWins ==
    phase = "score" =>
        /\ IsSubsequence(leads, Input)
        /\ \A j, k \in 1..Len(leads) : j < k => leads[j] # leads[k]
        /\ \A i, j \in 1..Len(Input) :
            (i < j /\ Accepted(i) /\ Duplicates(Input[j], Input[i])) => ~Accepted(j)
        /\ \A j \in 1..Len(Input) :
            Input[j] \notin Range(leads) =>
                \/ Phone(Input[j]) \in Known \ {NoText}
                \/ \E i \in 1..(j - 1) : Accepted(i) /\ Duplicates(Input[j], Input[i])

C17_Witness ==
    /\ phase = "score"
    /\ Len(Input) = 3
    /\ leads = <<Input[1], Input[3]>>
    /\ Input[2] # Input[1]
    /\ Duplicates(Input[2], Input[1])
    /\ ~Duplicates(Input[2], Input[3])

\* the additive reference of the score
Points(cond, n) == IF cond THEN n ELSE 0
Occurs(word, text) ==
    \E i \in 0..(Len(text) - Len(word)) :
        \A j \in 1..Len(word) : LowerChar(text[i + j]) = word[j]
IsPriority(nicho) ==
    lower(nicho) \in {<<"d", "e", "n", "t", "i", "s", "t", "a">>,
                      <<"c", "l", "í", "n", "i", "c", "a", " ", "e", "s", "t", "é", "t", "i", "c", "a">>,
                      <<"c", "l", "i", "n", "i", "c", "a", " ", "e", "s", "t", "e", "t", "i", "c", "a">>}
ReferenceSum(l) ==
      Points(l.site = NoText, 25)
    + Points(l.site = NoText /\ (l.instagram # NoText \/ l.facebook # NoText), 20)
    + Points(l.site # NoText /\ (Occurs(<<"w", "i", "x">>, l.site) \/ Occurs(<<"w", "o", "r", "d", "p", "r", "e", "s", "s">>, l.site)), 15)
    + Points(l.telefone # NoText, 10)
    + Points(l.email # NoText, 15)
    + Points(l.rating # NoNumber /\ l.rating < 40, 10)
    + Points(l.total_reviews # NoNumber /\ l.total_reviews < 10, 10)
    + Points(IsPriority(l.nicho), 10)

\* C18: the score written to a lead is min(100, sum) of the additive
\* reference over the lead's fields, and lies in 0..100.
C18_ScoreIsReference ==
    phase = "sort" =>
        \A k \in 1..Len(leads) :
            /\ leads[k].score = Min(100, ReferenceSum(leads[k]))
            /\ leads[k].score \in 0..100

C18_Witness ==
    /\ phase = "sort"
    /\ \E k \in 1..Len(leads) : leads[k].score = 100
    /\ \E k \in 1..Len(leads) : leads[k].instagram # NoText

Unscored(l) == [l EXCEPT !.score = 0]
Count(ls, l) == Cardinality({k \in 1..Len(ls) : ls[k] = l})
SameLeads(ls, ms) == Len(ls) = Len(ms) /\ \A l \in Range(ls) : Count(ls, l) = Count(ms, l)

C19_LeadStep ==
    /\ \A t \in Tasks :
        /\ Len(task_leads'[t]) >= Len(task_leads[t])
        /\ SubSeq(task_leads'[t], 1, Len(task_leads[t])) = task_leads[t]
    /\ CASE phase = "collect" /\ phase' = "dedup" -> leads' = Input
         [] phase = "dedup" /\ phase' = "score" -> IsSubsequence(leads', leads)
         [] phase = "score" /\ phase' = "sort" ->
                /\ Len(leads') = Len(leads)
                /\ \A k \in 1..Len(leads) :
                    leads[k].score = 0 /\ Unscored(leads'[k]) = leads[k]
         [] phase = "sort" /\ phase' = "persist" -> SameLeads(leads', leads)
         [] phase = "persist" ->
                leads' = leads /\ sheet'.rows \in {sheet.rows, sheet.rows \o leads}
         [] OTHER -> phase' = "crashed" \/ leads' = leads

C19_ZeroBeforeScore ==
    /\ \A t \in Tasks : \A k \in 1..Len(task_leads[t]) : task_leads[t][k].score = 0
    /\ phase \in {"init", "load_phones", "create", "collect", "dedup", "score", "aborted", "crashed"} =>
        \A k \in 1..Len(leads) : leads[k].score = 0

\* C19: of a lead only the score is written after its construction: it is 0
\* until the Score phase, which writes it once for each lead Dedup kept; the
\* Deduplicator only drops leads, and no other step changes a lead.
C19_OnlyScoreWritten == [](C19_ZeroBeforeScore) /\ [][C19_LeadStep]_vars

C19_Witness ==
    /\ phase = "sort"
    /\ leads # <<>>
    /\ Len(leads) < Len(Input)
    /\ \A k \in 1..Len(leads) : leads[k].score > 0

\* C20: the sequence handed to the sheet at Persist is the output of Dedup,
\* each lead with its score, in non-increasing order of score; the rows that
\* are written are that sequence.
C20_PersistedIsSortedDedup ==
    phase \in {"persist", "done"} =>
        /\ \A k \in 1..(Len(leads) - 1) : leads[k].score >= leads[k + 1].score
        /\ \A k \in 1..Len(leads) : leads[k].score = calculate(Unscored(leads[k]))
        /\ SameLeads([k \in 1..Len(leads) |-> Unscored(leads[k])],
                     deduplicate(existing_phones, Input))
        /\ sheet.rows \in {<<>>, leads}

C20_Witness ==
    /\ phase = "done"
    /\ Len(leads) = 3
    /\ sheet.rows = leads
    /\ leads[1].score > leads[3].score
    /\ [k \in 1..Len(leads) |-> Unscored(leads[k])] # deduplicate(existing_phones, Input)

\* the digits of a string in their order, and the country code removed once
RECURSIVE OnlyDigits(_)
OnlyDigits(str) ==
    IF str = <<>> THEN <<>>
    ELSE IF Head(str) \in {"0", "1", "2", "3", "4", "5", "6", "7", "8", "9"}
         THEN <<Head(str)>> \o OnlyDigits(Tail(str))
         ELSE OnlyDigits(Tail(str))

Without55(digits) ==
    IF Len(digits) >= 2 /\ digits[1] = "5" /\ digits[2] = "5" THEN Tail(Tail(digits)) ELSE digits

Normal(phone) == Without55(OnlyDigits(phone))

\* C21: the normalized phone is the digits of the phone in their order
\* without one leading "55" (a second one stays), for the leads and for the
\* known phones; a lead whose phone is absent or normalizes to nothing is
\* never dropped for its phone, whatever the known and the seen phones are.
C21_PhoneNormalization ==
    phase = "score" =>
        /\ \A i \in 1..Len(Input) : Phone(Input[i]) = Normal(Input[i].telefone)
        /\ Known = {Normal(p) : p \in existing_phones}
        /\ \A i \in 1..Len(Input) :
            (Normal(Input[i].telefone) = <<>> /\ Input[i] \notin Range(leads)) =>
                \E k \in 1..(i - 1) :
                    /\ Accepted(k)
                    /\ Input[k].cidade = Input[i].cidade
                    /\ AlikeNames(Input[i], Input[k])

C21_Witness ==
    /\ phase = "score"
    /\ <<>> \in Known
    /\ Len(Input) = 3
    /\ Input[1].telefone = <<"5", "5">>
    /\ Input[2].telefone = <<"5", "5", "5", "5", "-", "1">>
    /\ Phone(Input[2]) = <<"5", "5", "1">>
    /\ Input[3].telefone = <<"5", "5", "-", "1">>
    /\ leads = <<Input[1], Input[2]>>

\* a run in which every source answers every task the same way: one page
\* with one place, its details, the same place from the secondary source, no
\* failure, and a sheet that answers
SameResponses ==
    /\ world.outcomes = {"ok"}
    /\ world.page_sizes = {1}
    /\ world.max_pages = 1
    /\ world.items = {Open}
    /\ world.serp_outcomes = {"ok"}
    /\ world.local_results = <<Open.place_id>>
    /\ world.sink = {"ok"}

Undated(ls) == [k \in 1..Len(ls) |-> [ls[k] EXCEPT !.data_coleta = 0]]
Dated(ls, d) == [k \in 1..Len(ls) |-> [ls[k] EXCEPT !.data_coleta = d]]
Scored(ls) == [k \in 1..Len(ls) |-> [ls[k] EXCEPT !.score = calculate(ls[k])]]

\* what those answers give, the tasks taken in the order of their creation
AnswerOf(t) ==
    IF tasks[t].fonte = "google_places"
    THEN PlacesLead(Open.place_id, Details[Open.place_id], tasks[t].nicho, tasks[t].cidade)
    ELSE SerpLead(Open.place_id, Details[Open.place_id], tasks[t].nicho, tasks[t].cidade)
ExpectedPersisted ==
    SortByScore(Scored(deduplicate(sheet.phones, Undated([t \in 1..Len(tasks) |-> AnswerOf(t)]))))

\* C22, as stated: the persisted sequence is the same in every interleaving;
\* for one task of each source it is the sequence persisted when every answer
\* arrives at once, the kept lead constructed at the second grant.
C22_SamePersisted ==
    (SameResponses /\ Len(tasks) = 2 /\ phase = "persist") =>
        leads = Dated(ExpectedPersisted, interval \div TicksPerSecond)

\* C22, amended: the aggregate handed to Dedup lists the tasks' results in
\* the order the tasks were created, the primary source's before the
\* secondary's, and for the same answers the persisted sequence holds the
\* same leads with the same scores in the same order in every interleaving,
\* the data_coleta of each lead excepted.
C22_SameLeadsInOrder ==
    /\ phase = "dedup" =>
        /\ leads = Input
        /\ \A j, k \in Tasks :
            (tasks[j].fonte = "google_places" /\ tasks[k].fonte = "serpapi") => j < k
    /\ (SameResponses /\ phase \in {"persist", "done"}) =>
        /\ Undated(leads) = ExpectedPersisted
        /\ phase = "done" => sheet.rows = leads

C22_Witness ==
    /\ SameResponses
    /\ phase = "done"
    /\ Len(tasks) = 2
    /\ results[2].leads[1].data_coleta < results[1].leads[1].data_coleta
    /\ Undated(leads) = ExpectedPersisted
    /\ leads # <<>>
    /\ leads[1].fonte = "google_places"
    /\ sheet.rows = leads

SemWaiting(t) == pc[t] = "sem_wait"
PermitTaken(t) == Holding(t)
LockWaiting(t) == pc[t] = "lock_wait"
LockTaken(t) == pc[t] \in {"rl_sleep", "granted"}

\* a task stops waiting for a permit only by taking one, and for the lock
\* only by taking the free lock
C23_AdmitStep ==
    \A t \in Tasks :
        /\ (SemWaiting(t) /\ ~SemWaiting(t)') => PermitFree /\ PermitTaken(t)'
        /\ (LockWaiting(t) /\ ~LockWaiting(t)') => rate_lock = NoTask /\ LockTaken(t)'

\* C23: with more searches than permits on one adapter, tasks holding a
\* permit while they wait for the lock and the lock held across the limiter's
\* sleep, every task that waits for a permit gets one and every task that
\* waits for the lock gets it, when every HTTP call and every sleep ends: the
\* waiting ends for all of them, and it ends for none but by its admission.
C23_EventuallyAdmitted ==
    /\ [][C23_AdmitStep]_vars
    /\ <>[](\A t \in Tasks : ~SemWaiting(t) /\ ~LockWaiting(t))

C23_Witness ==
    \E t, u, v \in Tasks :
        /\ pc[t] = "sem_wait"
        /\ Holding(u) /\ pc[u] = "lock_wait"
        /\ Holding(v) /\ pc[v] = "rl_sleep" /\ rate_lock = v
====
